---- MODULE Spec2Model ----
(***************************************************************************)
(* FoodTruck front-end script (foodtruck/assets/js/foodtruck.js): the      *)
(* publish-log panel #ft-publog and its notifications.                     *)
(*                                                                         *)
(* Every handler of the script runs to completion on the browser's event   *)
(* loop, so every handler is one action.  What the script leaves pending   *)
(* between handlers is state: the 4000ms timeout of each notification, the *)
(* 400ms fade of a notification, and the fx queue of the panel (jQuery     *)
(* runs the fades of one element one after the other).                     *)
(***************************************************************************)
EXTENDS Naturals, Sequences, FiniteSets

\* Number of 'message' events the model delivers.
MaxMsgs == 2
\* Longest fx queue of the panel the model follows.
MaxFx == 2

\* Payloads of the 'message' events (e.data).
Payloads == {"A", "B"}

MsgIds == 1..MaxMsgs

VARIABLES
    autohide,      \* publogEl.attr('data-autohide') == 'true'
    display,       \* publogEl is displayed (its css display is not 'none')
    fx,            \* fx queue of publogEl: fades not finished, head running
    containerEl,   \* children of #ft-publog-container, in document order
    msgEl,         \* msgEl[m]: markup of notification m ("" before it exists)
    timeout,       \* timeout[m]: where notification m's delayed callback is
    nextId,        \* number of onPublishEvent calls so far, plus one
    stale,         \* history: notifications whose timeout was pending, and
                   \* which were in the container, at a close-button click
    sourceOpen,    \* the EventSource has not been closed
    navEnabled     \* 'ft-nav-enabled' on <<.ft-nav-container, .ft-nav>>

vars == <<autohide, display, fx, containerEl, msgEl, timeout, nextId, stale,
          sourceOpen, navEnabled>>

\* timeout[m]:
\*   "none"     notification m does not exist yet
\*   "pending"  window.setTimeout(..., 4000) has not fired
\*   "kept"     it fired and found data-autohide not 'true': nothing scheduled
\*   "fading"   it fired and started msgEl.fadeOut(400, removeMsgEl)
\*   "removed"  removeMsgEl has run
TimeoutStates == {"none", "pending", "kept", "fading", "removed"}

TypeOK ==
    /\ autohide \in BOOLEAN
    /\ display \in BOOLEAN
    /\ fx \in Seq({"in", "out"}) /\ Len(fx) <= MaxFx
    /\ containerEl \in Seq(MsgIds)
    /\ msgEl \in [MsgIds -> Payloads \cup {""}]
    /\ timeout \in [MsgIds -> TimeoutStates]
    /\ nextId \in 1..(MaxMsgs + 1)
    /\ stale \subseteq MsgIds
    /\ sourceOpen \in BOOLEAN
    /\ navEnabled \in BOOLEAN \X BOOLEAN

----------------------------------------------------------------------------
\* Helpers.

Range(s) == {s[i] : i \in 1..Len(s)}

\* containerEl.children().length
ChildrenLength(c) == Len(c)

\* containerEl.append(msgEl)
AppendChild(c, m) == Append(c, m)

\* Bug variant: containerEl.empty() in place of msgEl.remove().
RemoveChild_Empty(c, m) == SelectSeq(c, LAMBDA x : FALSE)

\* msgEl.remove(): detaches m; nothing happens when m is already detached.
RemoveChild(c, m) == SelectSeq(c, LAMBDA x : x # m)

----------------------------------------------------------------------------
\* The panel's fades.  fadeIn and fadeOut queue an animation on the element's
\* fx queue; an animation starts when it reaches the head of the queue.  A
\* fadeIn that starts on a displayed element, and a fadeOut that starts on an
\* element that is not displayed, have nothing to animate and finish at once.
\* A fadeIn that starts on a hidden element displays it (at opacity 0); a
\* fadeOut sets display to 'none' when it finishes.

\* Start the head of queue q on a panel whose display is d: <<display, fx>>.
RECURSIVE StartFx(_, _)
StartFx(d, q) ==
    IF q = <<>> THEN <<d, q>>
    ELSE IF Head(q) = "in"
         THEN IF d THEN StartFx(d, Tail(q)) ELSE <<TRUE, q>>
         ELSE IF d THEN <<d, q>> ELSE StartFx(d, Tail(q))

\* .queue('fx', animation)
QueueFx(d, q, op) ==
    IF q = <<>> THEN StartFx(d, <<op>>) ELSE <<d, Append(q, op)>>

\* publogEl.fadeIn(200)
FadeIn(d, q) == QueueFx(d, q, "in")

\* publogEl.fadeOut(200)
FadeOut(d, q) == QueueFx(d, q, "out")

\* publogEl.fadeToggle(200), which the script does not call: used by the bug
\* variants below.
FadeToggle(d, q) == QueueFx(d, q, IF d THEN "out" ELSE "in")

\* Whether a fade may be queued within the bound of the model.
FxRoom == Len(fx) < MaxFx

\* The panel's resting state, Visible or Hidden: whether it is displayed once
\* the fades in its queue have run (the last one decides).
Shown(d, q) == IF q = <<>> THEN d ELSE q[Len(q)] = "in"

Visible == Shown(display, fx)

----------------------------------------------------------------------------
\* The page as loaded: the panel hidden and empty, no notification yet.  The
\* data-autohide attribute comes from the page's markup, which the script
\* does not set before the first message: both readings are taken.
Init ==
    /\ autohide \in BOOLEAN
    /\ display = FALSE
    /\ fx = <<>>
    /\ containerEl = <<>>
    /\ msgEl = [m \in MsgIds |-> ""]
    /\ timeout = [m \in MsgIds |-> "none"]
    /\ nextId = 1
    /\ stale = {}
    /\ sourceOpen = TRUE
    /\ navEnabled = <<FALSE, FALSE>>

\* Bug variant: the click toggles the class on .ft-nav-container only.
NavToggleClick_ContainerOnly ==
    /\ navEnabled' = <<~navEnabled[1], navEnabled[2]>>
    /\ UNCHANGED <<autohide, display, fx, containerEl, msgEl, timeout, nextId,
                   stale, sourceOpen>>

\* $('.ft-nav-toggle').click
NavToggleClick ==
    /\ navEnabled' = <<~navEnabled[1], ~navEnabled[2]>>
    /\ UNCHANGED <<autohide, display, fx, containerEl, msgEl, timeout, nextId,
                   stale, sourceOpen>>

\* publogEl.mouseenter
MouseEnter ==
    /\ autohide' = FALSE
    /\ UNCHANGED <<display, fx, containerEl, msgEl, timeout, nextId, stale,
                   sourceOpen, navEnabled>>

\* publogEl.on('hide'): nothing in the script triggers 'hide' (jQuery's fades
\* do not), so the handler runs when something else on the page triggers it.
HideHandler ==
    /\ containerEl' = <<>>
    /\ UNCHANGED <<autohide, display, fx, msgEl, timeout, nextId, stale,
                   sourceOpen, navEnabled>>

\* Bug variant: the close button calls fadeToggle(200) in place of fadeOut(200).
ClosePublogBtnClick_Toggle ==
    /\ FxRoom
    /\ display' = FadeToggle(display, fx)[1]
    /\ fx' = FadeToggle(display, fx)[2]
    /\ stale' = stale \cup {m \in Range(containerEl) : timeout[m] = "pending"}
    /\ UNCHANGED <<autohide, containerEl, msgEl, timeout, nextId, sourceOpen,
                   navEnabled>>

\* closePublogBtn.on('click')
ClosePublogBtnClick ==
    /\ FxRoom
    /\ display' = FadeOut(display, fx)[1]
    /\ fx' = FadeOut(display, fx)[2]
    /\ stale' = stale \cup {m \in Range(containerEl) : timeout[m] = "pending"}
    /\ UNCHANGED <<autohide, containerEl, msgEl, timeout, nextId, sourceOpen,
                   navEnabled>>

\* Bug variant: the emptiness test comes after the append.
OnPublishEvent_CheckAfterAppend(data) ==
    /\ sourceOpen
    /\ nextId <= MaxMsgs
    /\ msgEl' = [msgEl EXCEPT ![nextId] = data]
    /\ timeout' = [timeout EXCEPT ![nextId] = "pending"]
    /\ containerEl' = AppendChild(containerEl, nextId)
    /\ IF ChildrenLength(containerEl') = 0
       THEN /\ FxRoom
            /\ autohide' = TRUE
            /\ display' = FadeIn(display, fx)[1]
            /\ fx' = FadeIn(display, fx)[2]
       ELSE UNCHANGED <<autohide, display, fx>>
    /\ nextId' = nextId + 1
    /\ UNCHANGED <<stale, sourceOpen, navEnabled>>

\* Bug variant: every message resets the marker and shows the panel.
OnPublishEvent_AlwaysFirst(data) ==
    /\ sourceOpen
    /\ nextId <= MaxMsgs
    /\ msgEl' = [msgEl EXCEPT ![nextId] = data]
    /\ timeout' = [timeout EXCEPT ![nextId] = "pending"]
    /\ FxRoom
    /\ autohide' = TRUE
    /\ display' = FadeIn(display, fx)[1]
    /\ fx' = FadeIn(display, fx)[2]
    /\ containerEl' = AppendChild(containerEl, nextId)
    /\ nextId' = nextId + 1
    /\ UNCHANGED <<stale, sourceOpen, navEnabled>>

\* Bug variant: the first message shows the panel and leaves the marker.
OnPublishEvent_NoReset(data) ==
    /\ sourceOpen
    /\ nextId <= MaxMsgs
    /\ msgEl' = [msgEl EXCEPT ![nextId] = data]
    /\ timeout' = [timeout EXCEPT ![nextId] = "pending"]
    /\ IF ChildrenLength(containerEl) = 0
       THEN /\ FxRoom
            /\ display' = FadeIn(display, fx)[1]
            /\ fx' = FadeIn(display, fx)[2]
       ELSE UNCHANGED <<display, fx>>
    /\ containerEl' = AppendChild(containerEl, nextId)
    /\ nextId' = nextId + 1
    /\ UNCHANGED <<autohide, stale, sourceOpen, navEnabled>>

\* onPublishEvent(e), e.data = data
OnPublishEvent(data) ==
    /\ sourceOpen
    /\ nextId <= MaxMsgs
    /\ msgEl' = [msgEl EXCEPT ![nextId] = data]
    /\ timeout' = [timeout EXCEPT ![nextId] = "pending"]
    /\ IF ChildrenLength(containerEl) = 0
       THEN /\ FxRoom
            /\ autohide' = TRUE
            /\ display' = FadeIn(display, fx)[1]
            /\ fx' = FadeIn(display, fx)[2]
       ELSE UNCHANGED <<autohide, display, fx>>
    /\ containerEl' = AppendChild(containerEl, nextId)
    /\ nextId' = nextId + 1
    /\ UNCHANGED <<stale, sourceOpen, navEnabled>>

\* Bug variant: a timeout that finds the marker off turns it on again.
TimeoutCallback_Rearm(m) ==
    /\ timeout[m] = "pending"
    /\ timeout' = [timeout EXCEPT ![m] = IF autohide THEN "fading" ELSE "kept"]
    /\ autohide' = TRUE
    /\ UNCHANGED <<display, fx, containerEl, msgEl, nextId, stale, sourceOpen,
                   navEnabled>>

\* The function given to window.setTimeout, for notification m.
TimeoutCallback(m) ==
    /\ timeout[m] = "pending"
    /\ timeout' = [timeout EXCEPT ![m] = IF autohide THEN "fading" ELSE "kept"]
    /\ UNCHANGED <<autohide, display, fx, containerEl, msgEl, nextId, stale,
                   sourceOpen, navEnabled>>

\* Bug variant: removeMsgEl reads the marker again and keeps the notification
\* when it is off.
RemoveMsgEl_Recheck(m) ==
    /\ timeout[m] = "fading"
    /\ timeout' = [timeout EXCEPT ![m] = "removed"]
    /\ containerEl' = IF autohide THEN RemoveChild(containerEl, m) ELSE containerEl
    /\ IF ChildrenLength(containerEl') = 0
       THEN /\ FxRoom
            /\ display' = FadeOut(display, fx)[1]
            /\ fx' = FadeOut(display, fx)[2]
       ELSE UNCHANGED <<display, fx>>
    /\ UNCHANGED <<autohide, msgEl, nextId, stale, sourceOpen, navEnabled>>

\* Bug variant: removeMsgEl calls fadeToggle(200) in place of fadeOut(200).
RemoveMsgEl_Toggle(m) ==
    /\ timeout[m] = "fading"
    /\ timeout' = [timeout EXCEPT ![m] = "removed"]
    /\ containerEl' = RemoveChild(containerEl, m)
    /\ IF ChildrenLength(containerEl') = 0
       THEN /\ FxRoom
            /\ display' = FadeToggle(display, fx)[1]
            /\ fx' = FadeToggle(display, fx)[2]
       ELSE UNCHANGED <<display, fx>>
    /\ UNCHANGED <<autohide, msgEl, nextId, stale, sourceOpen, navEnabled>>

\* removeMsgEl, called when msgEl.fadeOut(400, ...) of notification m is done.
RemoveMsgEl(m) ==
    /\ timeout[m] = "fading"
    /\ timeout' = [timeout EXCEPT ![m] = "removed"]
    /\ containerEl' = RemoveChild(containerEl, m)
    /\ IF ChildrenLength(containerEl') = 0
       THEN /\ FxRoom
            /\ display' = FadeOut(display, fx)[1]
            /\ fx' = FadeOut(display, fx)[2]
       ELSE UNCHANGED <<display, fx>>
    /\ UNCHANGED <<autohide, msgEl, nextId, stale, sourceOpen, navEnabled>>

\* The running fade of the panel finishes; the next one in the queue starts.
PublogFxDone ==
    /\ fx # <<>>
    /\ display' = StartFx(Head(fx) = "in", Tail(fx))[1]
    /\ fx' = StartFx(Head(fx) = "in", Tail(fx))[2]
    /\ UNCHANGED <<autohide, containerEl, msgEl, timeout, nextId, stale,
                   sourceOpen, navEnabled>>

\* Bug variant: the error handler also brings the panel into view.
SourceError_ShowsPanel ==
    /\ sourceOpen
    /\ sourceOpen' = FALSE
    /\ FxRoom
    /\ display' = FadeIn(display, fx)[1]
    /\ fx' = FadeIn(display, fx)[2]
    /\ UNCHANGED <<autohide, containerEl, msgEl, timeout, nextId, stale,
                   navEnabled>>

\* source.onerror
SourceError ==
    /\ sourceOpen
    /\ sourceOpen' = FALSE
    /\ UNCHANGED <<autohide, display, fx, containerEl, msgEl, timeout, nextId,
                   stale, navEnabled>>

Next ==
    \/ NavToggleClick
    \/ MouseEnter
    \/ ClosePublogBtnClick
    \/ HideHandler
    \/ \E data \in Payloads : OnPublishEvent(data)
    \/ \E m \in MsgIds : TimeoutCallback(m)
    \/ \E m \in MsgIds : RemoveMsgEl(m)
    \/ PublogFxDone
    \/ SourceError

Spec == Init /\ [][Next]_vars

----------------------------------------------------------------------------
\* Steps, for the properties below.

OnMessageStep == \E data \in Payloads : OnPublishEvent(data)

\* C1: the panel is Visible if and only if its container holds at least one
\* notification, in every reachable state.
C1_VisibleIffNotEmpty == Visible <=> (containerEl # <<>>)

\* C2: onPublishEvent called while the container holds no notification leaves
\* the panel Visible (displayed at once, and at rest), data-autohide 'true',
\* and the new notification alone in the container, whatever data-autohide
\* was and whatever timeouts of earlier notifications are pending.
C2_FirstMessageShows ==
    [][\A data \in Payloads :
          (OnPublishEvent(data) /\ containerEl = <<>>)
              => /\ Visible'
                 /\ display'
                 /\ autohide'
                 /\ containerEl' = <<nextId>>]_vars

\* Notification 2 is alone in a Visible panel while the timeout of notification
\* 1 is still pending: the container was emptied under notification 1, and
\* notification 2 arrived in the empty container.
C2_Witness ==
    /\ containerEl = <<2>>
    /\ timeout[1] = "pending"
    /\ timeout[2] = "pending"
    /\ autohide
    /\ Visible
    /\ display

\* C3: mouseenter turns data-autohide off, and only onPublishEvent turns it on
\* again: no timeout, fade completion, close click or 'hide' handler does.
C3_AutohideOffUntilMessage ==
    [][/\ MouseEnter => ~autohide'
       /\ (~autohide /\ autohide') => OnMessageStep]_vars

\* data-autohide is off and the timeout of a notification still in the
\* container has fired in the meantime.
C3_Witness ==
    /\ ~autohide
    /\ \E m \in Range(containerEl) : timeout[m] = "kept"

\* C4: a timeout that fires while data-autohide is 'true' starts the fade of
\* its notification; the fade, once started, ends in removeMsgEl only, whatever
\* happens meanwhile; removeMsgEl takes the notification out of the container
\* and, when that leaves the container empty, leaves the panel Hidden.
C4_FiredTimerRemoves ==
    [][\A m \in MsgIds :
          /\ (TimeoutCallback(m) /\ autohide) => timeout'[m] = "fading"
          /\ timeout[m] = "fading" => timeout'[m] \in {"fading", "removed"}
          /\ RemoveMsgEl(m)
                => /\ m \notin Range(containerEl')
                   /\ containerEl' = <<>> => ~Visible']_vars

\* A notification was removed on its fade while data-autohide had been turned
\* off, and the panel, left empty, is Hidden.
C4_Witness ==
    /\ \E m \in MsgIds : timeout[m] = "removed"
    /\ ~autohide
    /\ containerEl = <<>>
    /\ ~Visible
    /\ ~display

\* C5: a notification whose timeout fired while data-autohide was off stays in
\* the container, with nothing scheduled for it, in every step except the
\* 'hide' handler's (the close button does not take it out either).
C5_KeptStays ==
    [][\A m \in Range(containerEl) :
          (timeout[m] = "kept" /\ ~HideHandler)
              => /\ m \in Range(containerEl')
                 /\ timeout'[m] = "kept"]_vars

\* Notification 2 was kept and is still in the container after the fade of
\* notification 1 ended and removed notification 1.
C5_Witness ==
    /\ timeout[1] = "removed"
    /\ timeout[2] = "kept"
    /\ containerEl = <<2>>

\* C6: the close button leaves the panel Hidden, whatever the container
\* holds, whatever data-autohide is and whatever is pending; and the fades of
\* the panel, as they finish, do not change whether it is Visible or Hidden.
C6_CloseHides ==
    [][/\ ClosePublogBtnClick => ~Visible'
       /\ PublogFxDone => (Visible' <=> Visible)]_vars

\* The panel is hidden after a close click made with two notifications in it,
\* one of them with its timeout pending.
C6_Witness ==
    /\ ~Visible
    /\ ~display
    /\ Len(containerEl) = 2
    /\ stale # {}

\* C7: onPublishEvent called while the container holds a notification changes
\* neither data-autohide nor the panel (display and fx queue); it appends the
\* new notification and sets its timeout, and touches no other timeout.
C7_LaterMessageFrame ==
    [][\A data \in Payloads :
          (OnPublishEvent(data) /\ containerEl # <<>>)
              => /\ autohide' = autohide
                 /\ display' = display
                 /\ fx' = fx
                 /\ containerEl' = Append(containerEl, nextId)
                 /\ timeout'[nextId] = "pending"
                 /\ \A m \in MsgIds \ {nextId} : timeout'[m] = timeout[m]]_vars

\* Notification 2 arrived after a close click that found notification 1 in the
\* container (2 has its timeout pending and was not there at the click): the
\* panel is still Hidden and data-autohide still off.
C7_Witness ==
    /\ containerEl = <<1, 2>>
    /\ 1 \in stale
    /\ 2 \notin stale
    /\ timeout[2] = "pending"
    /\ ~autohide
    /\ ~Visible

\* C8, as stated: with data-autohide off, the next onPublishEvent turns it on,
\* whatever the container holds.
C8_NextMessageResets ==
    [][(OnMessageStep /\ ~autohide) => autohide']_vars

\* C8, amended: with data-autohide off, the next onPublishEvent turns it on
\* exactly when the container is empty at that moment.
C8_NextMessageResetsWhenEmpty ==
    [][(OnMessageStep /\ ~autohide) => (autohide' <=> containerEl = <<>>)]_vars

\* Notification 1 was kept (its timeout found data-autohide off), the container
\* was emptied, and notification 2 arrived and turned data-autohide on.
C8_Witness ==
    /\ timeout[1] = "kept"
    /\ containerEl = <<2>>
    /\ autohide

\* C9: the timeout of a notification that was pending at a close click, and
\* the fade completion it starts, never show the panel: they leave it not
\* displayed if it was not, Hidden if it was Hidden, and queue no fadeIn.
C9_StaleTimerKeepsHidden ==
    [][\A m \in stale :
          (TimeoutCallback(m) \/ RemoveMsgEl(m))
              => /\ Visible' => Visible
                 /\ display' => display
                 /\ \A i \in 1..Len(fx') : fx'[i] = "in" => i <= Len(fx) /\ fx[i] = "in"]_vars

\* The timeout of a notification pending at a close click has fired and its
\* fade has ended; the panel is Hidden.
C9_Witness ==
    /\ \E m \in stale : timeout[m] = "removed"
    /\ ~Visible
    /\ ~display

\* C10: after a close click the container holds none of the notifications it
\* held at the click.
C10_CloseEmptiesContainer ==
    [][ClosePublogBtnClick
          => \A m \in Range(containerEl) : m \notin Range(containerEl')]_vars

\* Dismissal of notification m is suspended: m is in the container, its
\* timeout has not started a fade, and data-autohide is off.
Suspended(m) ==
    /\ m \in Range(containerEl)
    /\ timeout[m] \in {"pending", "kept"}
    /\ ~autohide

\* C11: mouseenter suspends the dismissal of every notification in the
\* container whose timeout is pending, and a suspended notification stays
\* suspended (its timeout, when it fires, starts no fade and removes nothing)
\* for as long as it is in the container, whatever messages arrive; only the
\* 'hide' handler takes it out.
C11_HoverSuspendsAll ==
    [][/\ MouseEnter
          => \A m \in Range(containerEl) : timeout[m] = "pending" => Suspended(m)'
       /\ \A m \in MsgIds :
             (Suspended(m) /\ ~HideHandler) => Suspended(m)']_vars

\* Two notifications are in the container with data-autohide off, and the
\* timeouts of both have fired without starting a fade.
C11_Witness ==
    /\ containerEl = <<1, 2>>
    /\ timeout[1] = "kept"
    /\ timeout[2] = "kept"
    /\ ~autohide

\* C12: source.onerror closes the EventSource and changes nothing of the
\* panel (display, fx queue, notifications, data-autohide); once closed the
\* source stays closed, no onPublishEvent runs and no notification is made.
C12_ErrorClosesForGood ==
    [][/\ SourceError
          => /\ ~sourceOpen'
             /\ UNCHANGED <<autohide, display, fx, containerEl, msgEl, timeout>>
       /\ ~sourceOpen
          => /\ ~sourceOpen'
             /\ ~OnMessageStep
             /\ nextId' = nextId
             /\ msgEl' = msgEl
             /\ Range(containerEl') \subseteq Range(containerEl)]_vars

\* The source was closed after the first message; that notification has
\* since been dismissed and no second one was made.
C12_Witness ==
    /\ ~sourceOpen
    /\ nextId = 2
    /\ timeout[1] = "removed"
    /\ timeout[2] = "none"

\* C13: a click on the navigation toggle flips 'ft-nav-enabled' on both
\* containers in one step, so that flipping the result again gives back the
\* classes before the click; no other step changes the class.
C13_NavToggleFlipsBoth ==
    [][/\ NavToggleClick
          => /\ navEnabled' = <<~navEnabled[1], ~navEnabled[2]>>
             /\ <<~navEnabled'[1], ~navEnabled'[2]>> = navEnabled
       /\ navEnabled' # navEnabled => NavToggleClick]_vars

\* The class is on both containers after a click, with a notification in the
\* panel whose timeout has fired.
C13_Witness ==
    /\ navEnabled = <<TRUE, TRUE>>
    /\ \E m \in Range(containerEl) : timeout[m] \in {"kept", "fading"}

\* C14: the timeout of a notification that is no longer in the container, and
\* the fade completion it starts, change neither whether the panel is Visible,
\* nor data-autohide, nor the notifications in the container.
C14_DisposedTimerNoOp ==
    [][\A m \in MsgIds :
          (m \notin Range(containerEl) /\ (TimeoutCallback(m) \/ RemoveMsgEl(m)))
              => /\ Visible' <=> Visible
                 /\ autohide' = autohide
                 /\ containerEl' = containerEl]_vars

\* C15: after every onPublishEvent the panel is Visible and the new
\* notification is in the container.
C15_MessageDisplayed ==
    [][OnMessageStep => (Visible' /\ nextId \in Range(containerEl'))]_vars

----------------------------------------------------------------------------
\* The page when the pointer never enters the panel.  The browser runs every
\* timeout that is due and finishes every animation it has started, which is
\* weak fairness of the three steps it takes on its own.

NextNoHover ==
    \/ NavToggleClick
    \/ ClosePublogBtnClick
    \/ HideHandler
    \/ \E data \in Payloads : OnPublishEvent(data)
    \/ \E m \in MsgIds : TimeoutCallback(m)
    \/ \E m \in MsgIds : RemoveMsgEl(m)
    \/ PublogFxDone
    \/ SourceError

BrowserFairness ==
    /\ \A m \in MsgIds : WF_vars(TimeoutCallback(m))
    /\ \A m \in MsgIds : WF_vars(RemoveMsgEl(m))
    /\ WF_vars(PublogFxDone)

SpecNoHover == Init /\ [][NextNoHover]_vars /\ BrowserFairness

\* Every notification made so far has been removed by removeMsgEl, the
\* container is empty and the panel is hidden with no fade left to run.
AllDismissed ==
    /\ \A m \in MsgIds : timeout[m] \in {"none", "removed"}
    /\ containerEl = <<>>
    /\ ~display
    /\ fx = <<>>

\* C16: without mouseenter, and with the finitely many messages of the model,
\* the page ends, and stays for ever, with every notification removed, the
\* container empty and the panel Hidden; and once it is so, only an
\* onPublishEvent ends it.
C16_EventuallyAllDismissed ==
    /\ <>[]AllDismissed
    /\ [][(AllDismissed /\ ~OnMessageStep) => AllDismissed']_vars

\* Two notifications arrived and both have been removed; the panel is hidden.
C16_Witness ==
    /\ nextId > 2
    /\ AllDismissed

====
